---- MODULE Spec2Model ----
(***************************************************************************)
(* A model of apps/shutdown_timer.py: the AppDaemon app ShutdownTimer.     *)
(*                                                                         *)
(* The app is one object whose callbacks (start_timer, stop_timer,         *)
(* update_countdown, shutdown) are dispatched one at a time by the host.   *)
(* The host's scheduler is modelled by the set `schedule` of outstanding   *)
(* timers; time is counted in whole minutes relative to now. Two callbacks *)
(* due in the same minute run in either order, and start and stop events   *)
(* arrive at any time.                                                     *)
(*                                                                         *)
(* start_timer and stop_timer format self.shutdown_entity into a log line. *)
(* The class assigns self.shutdown_entities and never self.shutdown_entity,*)
(* so the read succeeds only if the inherited host class supplies that     *)
(* attribute, and raises AttributeError otherwise. The host class is not   *)
(* part of the repository: has_shutdown_entity is fixed either way at      *)
(* construction and both instances are explored.                           *)
(*                                                                         *)
(* calls, last and run are history variables: what the last step did and   *)
(* what the start and stop events so far ask for. The callbacks never read *)
(* them.                                                                   *)
(***************************************************************************)
EXTENDS Integers, Sequences, FiniteSets, TLC

\* ------------------------------------------------------------------ bounds

\* Largest whole number of minutes the duration source is drawn from.
MaxMinutes == 3

\* Longest list of shutdown entities the app is configured with.
MaxTargets == 2

\* ------------------------------------------------------------ configuration

\* Python's None, for the two handle fields (handles are 1, 2, ...).
None == 0

\* The entity identifiers a configuration may name.
Entities == {"switch.media", "light.bed", "light.desk"}

\* The configured lists of shutdown entities: args["shutdown_entity"], a list of
\* distinct identifiers.
TargetLists ==
    {s \in UNION {[1..n -> Entities] : n \in 0..MaxTargets} :
        \A i, j \in DOMAIN s : i # j => s[i] # s[j]}

number_entity == "input_number.timer"
sensor_entity == "sensor.timer"

\* What get_state(number_entity) can return: the text of a decimal number
\* (given in tenths: 25 is "2.5"), a text that is no number ("abc"), the texts
\* "nan" and "inf" (which float() accepts), or None when the entity is missing.
StateValues ==
    {[kind |-> "num", tenths |-> 5 * k] : k \in (-2)..(2 * MaxMinutes)}
    \cup {[kind |-> k, tenths |-> 0] : k \in {"text", "nan", "inf", "none"}}

VARIABLES
    shutdown_entities,        \* self.shutdown_entities
    has_shutdown_entity,      \* whether reading self.shutdown_entity succeeds
    timer_handle,             \* self.timer_handle
    update_countdown_handle,  \* self.update_countdown_handle
    shutdown_counter,         \* self.shutdown_counter
    sensor,                   \* the host's state of sensor_entity
    schedule,                 \* the host's outstanding timers
    calls,                    \* the host calls made by the last callback
    last,                     \* the last step: the callback run and how it ended
    run                       \* history: the run the start and stop events ask for

vars == <<shutdown_entities, has_shutdown_entity, timer_handle,
          update_countdown_handle, shutdown_counter, sensor, schedule, calls,
          last, run>>

config == <<shutdown_entities, has_shutdown_entity>>

\* ------------------------------------------------------------ host contract

Call(fn, arg) == [fn |-> fn, arg |-> arg]

\* The text of a handle, as it appears in a recorded call.
H(h) == IF h = None THEN "None" ELSE ToString(h)

\* cancel_timer(handle): the timer stops firing; unknown, fired and None
\* handles are accepted.
cancel_timer(sched, h) == {t \in sched : t.handle # h}

\* A handle the host has not handed out to anything still referring to it.
NewHandle(used) ==
    CHOOSE h \in 1..(Cardinality(used) + 1) :
        h \notin used /\ \A g \in 1..(h - 1) : g \in used

Handles(sched) == {t.handle : t \in sched}

\* run_at(self.shutdown, now + minutes): a one-shot timer.
run_at(h, minutes) == [handle |-> h, cb |-> "shutdown", due |-> minutes]

\* Minutes until the first firing of run_minutely(callback, start=None).
FirstTick == 1

\* run_minutely(self.update_countdown, start=None): a repeating timer.
run_minutely(h) == [handle |-> h, cb |-> "update_countdown", due |-> FirstTick]

\* Minutes between two firings of a run_minutely timer.
Period == 1

\* The host's scheduler after firing t: a repeating timer is due again one
\* period later.
Refire(sched, t) == (sched \ {t}) \cup {[t EXCEPT !.due = Period]}

ShutdownTimers(sched) == {t \in sched : t.cb = "shutdown"}
TickTimers(sched) == {t \in sched : t.cb = "update_countdown"}

\* ----------------------------------------------------------------- history

\* A value of get_state that is no value: the step read nothing.
NoValue == [kind |-> "", tenths |-> 0]

Ended(cb, h, raised, val) == [cb |-> cb, handle |-> h, raised |-> raised, val |-> val]

\* No start event with a positive duration yet. epoch changes at every start
\* and stop event.
NoRun == [phase |-> "idle", minutes |-> 0, elapsed |-> 0, ticks |-> 0,
          restart |-> FALSE, fired |-> FALSE, epoch |-> 0]

\* The run after a start event whose duration parsed to minutes (raised: the
\* parse did not return). A positive duration asks for a new run; it is a
\* restart when the run before it had not reached its expiry.
RunAfterStart(minutes, raised) ==
    IF raised = "" /\ minutes > 0
    THEN [phase |-> "started", minutes |-> minutes, elapsed |-> 0, ticks |-> 0,
          restart |-> (run.phase = "started" /\ run.elapsed < run.minutes),
          fired |-> FALSE, epoch |-> 1 - run.epoch]
    ELSE IF run.phase = "started"
    THEN [NoRun EXCEPT !.phase = "disarmed", !.epoch = 1 - run.epoch]
    ELSE [run EXCEPT !.epoch = 1 - run.epoch]

\* The run after a stop event.
RunAfterStop ==
    IF run.phase = "started"
    THEN [NoRun EXCEPT !.phase = "stopped", !.epoch = 1 - run.epoch]
    ELSE [run EXCEPT !.epoch = 1 - run.epoch]

\* The run after one more minute: the minutes since the start event are counted
\* up to one past the expiry.
RunAfterMinute ==
    IF run.phase = "started" /\ run.elapsed <= run.minutes
    THEN [run EXCEPT !.elapsed = run.elapsed + 1]
    ELSE run

\* ----------------------------------------------------------- the callbacks

\* f"{self.shutdown_counter} min"
Minutes(n) == ToString(n) \o " min"

\* int(x) of a float given in tenths: truncation toward zero.
IntOfTenths(t) == IF t >= 0 THEN t \div 10 ELSE -((-t) \div 10)

\* The try block of start_timer: int(float(val)), ValueError caught. float()
\* raises ValueError on a text that is no number and TypeError on None; int()
\* raises ValueError on nan and OverflowError on inf.
ParseMinutes(val) ==
    CASE val.kind = "num"  -> [minutes |-> IntOfTenths(val.tenths), error |-> FALSE, raised |-> ""]
      [] val.kind = "text" -> [minutes |-> 0, error |-> TRUE, raised |-> ""]
      [] val.kind = "nan"  -> [minutes |-> 0, error |-> TRUE, raised |-> ""]
      [] val.kind = "inf"  -> [minutes |-> 0, error |-> FALSE, raised |-> "OverflowError"]
      [] val.kind = "none" -> [minutes |-> 0, error |-> FALSE, raised |-> "TypeError"]

CancelRunningKeepsTick(sched, th, uch) ==
    IF th # None THEN cancel_timer(sched, th) ELSE sched

\* The head of start_timer: a running timer and its update scheduler are
\* cancelled.
CancelRunning(sched, th, uch) ==
    IF th # None THEN cancel_timer(cancel_timer(sched, th), uch) ELSE sched

CancelRunningCalls(th, uch) ==
    IF th # None
    THEN <<Call("cancel_timer", H(th)), Call("cancel_timer", H(uch))>>
    ELSE <<>>

ArmsFromZero(minutes) == minutes >= 0

\* The test of start_timer that decides whether a timer is armed.
Arms(minutes) == minutes > 0

Init ==
    /\ shutdown_entities \in TargetLists
    /\ has_shutdown_entity \in BOOLEAN
    /\ timer_handle = None
    /\ update_countdown_handle = None
    /\ shutdown_counter = 0
    /\ sensor = "off"
    /\ schedule = {}
    /\ calls = <<>>
    /\ last = Ended("initialize", None, "", NoValue)
    /\ run = NoRun

\* start_timer, run on the start event with the duration source holding val.
Start ==
    \E val \in StateValues :
        LET sched1 == CancelRunning(schedule, timer_handle, update_countdown_handle)
            calls1 == Append(CancelRunningCalls(timer_handle, update_countdown_handle),
                             Call("get_state", number_entity))
            p      == ParseMinutes(val)
            h1     == NewHandle(Handles(sched1) \cup {timer_handle, update_countdown_handle})
            h2     == NewHandle(Handles(sched1) \cup {h1, update_countdown_handle})
        IN  /\ UNCHANGED config
            /\ run' = RunAfterStart(p.minutes, p.raised)
            /\ IF p.raised # ""
               THEN /\ schedule' = sched1
                    /\ calls' = calls1
                    /\ last' = Ended("start_timer", None, p.raised, val)
                    /\ UNCHANGED <<timer_handle, update_countdown_handle,
                                   shutdown_counter, sensor>>
               ELSE IF ~Arms(p.minutes)
               THEN /\ schedule' = sched1
                    /\ calls' = IF p.error THEN Append(calls1, Call("error", number_entity))
                                ELSE calls1
                    /\ last' = Ended("start_timer", None, "", val)
                    /\ UNCHANGED <<timer_handle, update_countdown_handle,
                                   shutdown_counter, sensor>>
               ELSE IF ~has_shutdown_entity
               THEN /\ shutdown_counter' = p.minutes
                    /\ schedule' = sched1
                    /\ calls' = calls1
                    /\ last' = Ended("start_timer", None, "AttributeError", val)
                    /\ UNCHANGED <<timer_handle, update_countdown_handle, sensor>>
               ELSE /\ shutdown_counter' = p.minutes
                    /\ timer_handle' = h1
                    /\ sensor' = Minutes(p.minutes)
                    /\ update_countdown_handle' = h2
                    /\ schedule' = sched1 \cup {run_at(h1, p.minutes), run_minutely(h2)}
                    /\ calls' = calls1 \o <<Call("log", "shutdown_entity"),
                                            Call("run_at", Minutes(p.minutes)),
                                            Call("set_state", Minutes(p.minutes)),
                                            Call("run_minutely", "None")>>
                    /\ last' = Ended("start_timer", None, "", val)

StopKeepsTick(sched, th, uch) == cancel_timer(sched, th)

StopKeepsShutdown(sched, th, uch) == cancel_timer(sched, uch)

\* The schedule stop_timer leaves: both timers cancelled.
StopSchedule(sched, th, uch) == cancel_timer(cancel_timer(sched, th), uch)

StopKeepsCountdownHandle(th, uch) == <<None, uch>>

\* The two handle fields as stop_timer leaves them: timer_handle and
\* update_countdown_handle, both None.
StopHandles(th, uch) == <<None, None>>

\* stop_timer, run on the stop event.
Stop ==
    /\ UNCHANGED <<config, shutdown_counter>>
    /\ run' = RunAfterStop
    /\ IF timer_handle # None
       THEN /\ schedule' = StopSchedule(schedule, timer_handle, update_countdown_handle)
            /\ sensor' = "off"
            /\ update_countdown_handle' = StopHandles(timer_handle, update_countdown_handle)[2]
            /\ timer_handle' = StopHandles(timer_handle, update_countdown_handle)[1]
            /\ calls' = <<Call("cancel_timer", H(timer_handle)),
                          Call("set_state", "off"),
                          Call("cancel_timer", H(update_countdown_handle))>>
                        \o (IF has_shutdown_entity
                            THEN <<Call("log", "shutdown_entity")>> ELSE <<>>)
            /\ last' = Ended("stop_timer", None,
                             IF has_shutdown_entity THEN "" ELSE "AttributeError",
                             NoValue)
       ELSE /\ calls' = <<>>
            /\ last' = Ended("stop_timer", None, "", NoValue)
            /\ UNCHANGED <<timer_handle, update_countdown_handle, sensor, schedule>>

\* The sensor value update_countdown writes for the decremented counter c.
CountdownState(c) == IF c > 0 THEN Minutes(c) ELSE "off"

CountdownNeverCancels(sched, c, uch) == sched

\* The schedule update_countdown leaves for the decremented counter c: at 0 it
\* cancels its own scheduler.
CountdownSchedule(sched, c, uch) == IF c > 0 THEN sched ELSE cancel_timer(sched, uch)

\* update_countdown, run by the host when a minutely timer is due.
Tick ==
    \E t \in TickTimers(schedule) :
        /\ t.due = 0
        /\ LET c == shutdown_counter - 1
           IN  /\ shutdown_counter' = c
               /\ sensor' = CountdownState(c)
               /\ schedule' = CountdownSchedule(Refire(schedule, t), c,
                                                update_countdown_handle)
               /\ calls' = <<Call("set_state", CountdownState(c))>>
                           \o (IF c > 0 THEN <<>>
                               ELSE <<Call("cancel_timer", H(update_countdown_handle))>>)
        /\ last' = Ended("update_countdown", t.handle, "", NoValue)
        /\ run' = [run EXCEPT !.ticks = run.ticks + 1]
        /\ UNCHANGED <<config, timer_handle, update_countdown_handle>>

RECURSIVE ShutdownCalls(_)

ShutdownCallsFirstOnly(entities) ==
    IF entities = <<>> THEN <<>>
    ELSE <<Call("log", Head(entities)), Call("turn_off", Head(entities))>>

\* The host calls of shutdown: for every entity of the list, in order, a log
\* line and turn_off.
ShutdownCalls(entities) ==
    IF entities = <<>> THEN <<>>
    ELSE <<Call("log", Head(entities)), Call("turn_off", Head(entities))>>
         \o ShutdownCalls(Tail(entities))

ShutdownCancelsTick(sched, t) == (sched \ {t}) \ TickTimers(sched)

\* The schedule after shutdown ran for the one-shot timer t: t has fired, and
\* shutdown itself schedules and cancels nothing.
ShutdownSchedule(sched, t) == sched \ {t}

\* shutdown, run by the host when the one-shot timer is due.
Shutdown ==
    \E t \in ShutdownTimers(schedule) :
        /\ t.due = 0
        /\ schedule' = ShutdownSchedule(schedule, t)
        /\ calls' = ShutdownCalls(shutdown_entities)
        /\ last' = Ended("shutdown", t.handle, "", NoValue)
        /\ run' = [run EXCEPT !.fired = TRUE]
        /\ UNCHANGED <<config, timer_handle, update_countdown_handle,
                       shutdown_counter, sensor>>

\* One minute passes. The host runs every due callback before the next minute.
Advance ==
    /\ \A t \in schedule : t.due > 0
    /\ schedule' = {[t EXCEPT !.due = t.due - 1] : t \in schedule}
    /\ calls' = <<>>
    /\ last' = Ended("minute", None, "", NoValue)
    /\ run' = RunAfterMinute
    /\ UNCHANGED <<config, timer_handle, update_countdown_handle,
                   shutdown_counter, sensor>>

Next == Start \/ Stop \/ Tick \/ Shutdown \/ Advance

Spec == Init /\ [][Next]_vars

\* The host's scheduler runs a due callback, and time passes.
FairSpec == Spec /\ WF_vars(Tick) /\ WF_vars(Shutdown) /\ WF_vars(Advance)

\* ------------------------------------------------------------------ claims

\* The duration a start event read, when it parsed to a positive integer; 0
\* otherwise.
Positive(val) == IF val.kind = "num" /\ val.tenths >= 10 THEN val.tenths \div 10 ELSE 0

CallsOf(fn) == {i \in DOMAIN calls : calls[i].fn = fn}

\* C1: on return of a start that read a duration parsing to N > 0, the counter
\* is N, exactly one deferred shutdown is armed N minutes ahead, the sensor
\* shows "N min", exactly one minutely tick is armed with its first firing one
\* minute ahead, and both handles are set.
C1_StartArms ==
    (last.cb = "start_timer" /\ Positive(last.val) > 0) =>
        LET N == Positive(last.val)
        IN  /\ shutdown_counter = N
            /\ ShutdownTimers(schedule) =
                   {[handle |-> timer_handle, cb |-> "shutdown", due |-> N]}
            /\ sensor = Minutes(N)
            /\ TickTimers(schedule) =
                   {[handle |-> update_countdown_handle, cb |-> "update_countdown",
                     due |-> 1]}
            /\ timer_handle # None
            /\ update_countdown_handle # None

\* C1, where the read of self.shutdown_entity in start_timer succeeds.
C1_WhereStartReturns == has_shutdown_entity => C1_StartArms

\* C2: in every reachable state at most one deferred shutdown and at most one
\* minutely tick are outstanding, and each outstanding timer is the one a
\* handle field names: no start leaves a duplicate or an orphan.
C2_AtMostOneOfEach ==
    /\ Cardinality(ShutdownTimers(schedule)) <= 1
    /\ Cardinality(TickTimers(schedule)) <= 1
    /\ \A t \in ShutdownTimers(schedule) : t.handle = timer_handle
    /\ \A t \in TickTimers(schedule) : t.handle = update_countdown_handle

\* C2's case: a start that came while a run was in progress has returned, and
\* one timer of each kind is outstanding.
C2_Witness ==
    /\ last.cb = "start_timer"
    /\ run.restart
    /\ CallsOf("cancel_timer") # {}
    /\ Cardinality(ShutdownTimers(schedule)) = 1
    /\ Cardinality(TickTimers(schedule)) = 1

\* The sensor value k ticks into a run of N minutes.
Display(N, k) == IF k < N THEN Minutes(N - k) ELSE "off"

\* C3: after a start with a positive duration D2 that came before the run of an
\* earlier start expired, the sensor counts down from D2 ("D2 min" on return
\* of the start, one less after each tick), the only shutdown that fires is the
\* one the second start armed, D2 minutes after it, and every callback that
\* fires belongs to a timer the second start armed.
C3_RestartSupersedes ==
    (run.phase = "started" /\ run.restart) =>
        /\ \A t \in schedule : t.handle \in {timer_handle, update_countdown_handle}
        /\ last.cb = "start_timer" => sensor = Minutes(run.minutes)
        /\ last.cb = "update_countdown" =>
               /\ last.handle = update_countdown_handle
               /\ run.ticks = run.elapsed
               /\ sensor = Display(run.minutes, run.ticks)
        /\ last.cb = "shutdown" =>
               /\ last.handle = timer_handle
               /\ run.elapsed = run.minutes

\* C3, where the read of self.shutdown_entity in start_timer succeeds.
C3_WhereStartReturns == has_shutdown_entity => C3_RestartSupersedes

\* C4: a stop that finds a timer running leaves the sensor "off", no deferred
\* shutdown and no minutely tick outstanding, and both handles None.
C4_StopCancels ==
    [][(timer_handle # None /\ last'.cb = "stop_timer") =>
           /\ sensor' = "off"
           /\ ShutdownTimers(schedule') = {}
           /\ TickTimers(schedule') = {}
           /\ timer_handle' = None
           /\ update_countdown_handle' = None]_vars

\* C4's case: a stop has returned that came in the middle of a countdown.
C4_Witness ==
    /\ last.cb = "stop_timer"
    /\ run.phase = "stopped"
    /\ CallsOf("cancel_timer") # {}
    /\ shutdown_counter > 0
    /\ sensor = "off"

\* C5: from a stop that came during a run until the next start with a positive
\* duration, neither shutdown nor update_countdown runs: no turn_off is called
\* and no tick writes the sensor.
C5_StopPreventsShutdown ==
    run.phase = "stopped" =>
        /\ last.cb \notin {"shutdown", "update_countdown"}
        /\ CallsOf("turn_off") = {}

\* C5's case: a countdown was stopped before its expiry and a minute has passed
\* since.
C5_Witness ==
    /\ run.phase = "stopped"
    /\ has_shutdown_entity
    /\ shutdown_counter > 0
    /\ last.cb = "minute"

\* The instance is Idle: no start event yet, stopped, or expired (the countdown
\* reached 0 and the deferred shutdown fired).
Idle ==
    \/ run.phase \in {"idle", "stopped"}
    \/ run.phase = "started" /\ run.fired /\ shutdown_counter = 0

\* C6: a stop that finds the instance Idle makes no host call and leaves the
\* counter, the handles, the sensor and the schedule as they were.
C6_StopWhileIdle ==
    [][(Idle /\ last'.cb = "stop_timer") =>
           /\ calls' = <<>>
           /\ UNCHANGED <<timer_handle, update_countdown_handle, shutdown_counter,
                          sensor, schedule>>]_vars

\* C6, for the Idle states other than expiry.
C6_BeforeExpiry ==
    [][(run.phase \in {"idle", "stopped"} /\ last'.cb = "stop_timer") =>
           /\ calls' = <<>>
           /\ UNCHANGED <<timer_handle, update_countdown_handle, shutdown_counter,
                          sensor, schedule>>]_vars

\* A value of the duration source that is zero, negative (or below 1, which
\* int() truncates to 0) or no number.
ArmsNothing(val) ==
    \/ val.kind = "num" /\ val.tenths < 10
    \/ val.kind \in {"text", "nan"}

C8_CountdownSequence ==
    run.phase = "started" =>
        /\ last.cb = "start_timer" => sensor = Minutes(run.minutes)
        /\ last.cb = "update_countdown" => sensor = Display(run.minutes, run.ticks)
        /\ run.ticks <= run.minutes
        /\ run.ticks = run.minutes => TickTimers(schedule) = {}

\* C8, where the read of self.shutdown_entity in start_timer succeeds.
C8_WhereStartReturns == has_shutdown_entity => C8_CountdownSequence

\* C9: when shutdown has run, turn_off was called exactly once for each entity
\* of shutdown_entities and for no other entity.
C9_ShutdownTurnsOffEach ==
    last.cb = "shutdown" =>
        \A e \in Entities :
            Cardinality({i \in CallsOf("turn_off") : calls[i].arg = e})
                = IF \E j \in DOMAIN shutdown_entities : shutdown_entities[j] = e
                  THEN 1 ELSE 0

\* C9's case: shutdown has run for several entities while the minutely tick was
\* still outstanding and the counter above 0.
C9_Witness ==
    /\ last.cb = "shutdown"
    /\ Len(shutdown_entities) >= 2
    /\ TickTimers(schedule) # {}
    /\ shutdown_counter > 0

\* The run has ended as asked: the deferred shutdown has fired (turning off the
\* entities) and the sensor shows "off".
Expired == run.fired /\ sensor = "off"

\* C10: after a start with a positive duration, unless a start or stop event
\* follows, the deferred shutdown eventually fires and the sensor eventually
\* shows "off".
C10_EventuallyShutsDown ==
    \A e \in {0, 1} :
        [](run.phase = "started" /\ run.epoch = e => <>(Expired \/ run.epoch # e))

\* C10, where the read of self.shutdown_entity in start_timer succeeds.
C10_WhereStartReturns ==
    \A e \in {0, 1} :
        [](has_shutdown_entity /\ run.phase = "started" /\ run.epoch = e
               => <>(Expired \/ run.epoch # e))

\* C11: whatever get_state returns for the duration source (a number, a text
\* that is no number, or None for a missing entity), start_timer returns
\* without raising; a value that cannot be parsed is logged as an error and
\* arms nothing.
C11_StartNeverRaises ==
    last.cb = "start_timer" =>
        /\ last.raised = ""
        /\ last.val.kind \in {"text", "nan", "none"} =>
               /\ CallsOf("error") # {}
               /\ CallsOf("run_at") = {}
               /\ CallsOf("run_minutely") = {}

\* C11, for the values float() and int() reject with ValueError and the
\* numbers below 1.
C11_WhereValueError ==
    (last.cb = "start_timer" /\ ArmsNothing(last.val)) =>
        /\ last.raised = ""
        /\ last.val.kind \in {"text", "nan"} => CallsOf("error") # {}
        /\ CallsOf("run_at") = {}

\* C11's failing value: None raises TypeError in float(), which start_timer
\* does not catch.
C11_NoneReturns ==
    (last.cb = "start_timer" /\ last.val.kind = "none") => last.raised = ""

\* C12: between callbacks timer_handle is set exactly when a deferred shutdown
\* is armed that has neither fired nor been cancelled.
C12_HandleIffRunning == (timer_handle # None) <=> (ShutdownTimers(schedule) # {})

\* C12, one direction: an armed deferred shutdown is the one timer_handle names.
C12_ArmedHasHandle ==
    \A t \in ShutdownTimers(schedule) : timer_handle = t.handle

\* C13: between callbacks update_countdown_handle is set exactly when
\* timer_handle is.
C13_HandlesTogether == (update_countdown_handle # None) <=> (timer_handle # None)

\* C13's case: a start has set both handles and armed both timers.
C13_Witness ==
    /\ last.cb = "start_timer"
    /\ timer_handle # None
    /\ update_countdown_handle # None
    /\ ShutdownTimers(schedule) # {}
    /\ TickTimers(schedule) # {}

\* C14: whenever the instance is Running (timer_handle is set) the counter is
\* above 0, and a tick leaves the sensor "off" exactly when it brings the
\* counter to 0.
C14_RunningCounterPositive ==
    /\ timer_handle # None => shutdown_counter > 0
    /\ last.cb = "update_countdown" => ((sensor = "off") <=> (shutdown_counter = 0))

\* C14, the part about the tick: it leaves the sensor "off" exactly when it
\* brings the counter to 0, and then no tick is outstanding.
C14_OffAtZero ==
    last.cb = "update_countdown" =>
        /\ (sensor = "off") <=> (shutdown_counter = 0)
        /\ (sensor = "off") <=> (TickTimers(schedule) = {})

\* C15: in every reachable state a minutely tick is outstanding exactly when a
\* deferred shutdown is pending, also in the minute of expiry.
C15_CancelledTogether ==
    (TickTimers(schedule) = {}) <=> (ShutdownTimers(schedule) = {})

\* C15 as amended: a state in which only one of the two is outstanding is in
\* the minute of expiry, where the one left is due now: start_timer and
\* stop_timer cancel both, while the last tick cancels itself and the shutdown
\* is gone once it fired.
C15_TogetherUntilExpiry ==
    ((TickTimers(schedule) = {}) # (ShutdownTimers(schedule) = {})) =>
        /\ \A t \in schedule : t.due = 0
        /\ run.phase = "started"
        /\ run.elapsed = run.minutes

\* C15's case: the last tick has cancelled itself and the deferred shutdown is
\* still pending.
C15_Witness ==
    /\ last.cb = "update_countdown"
    /\ TickTimers(schedule) = {}
    /\ ShutdownTimers(schedule) # {}
    /\ shutdown_counter = 0

\* C16: whenever shutdown has just run, the last tick of the run had run before
\* it: the counter is 0, the sensor shows "off" and no minutely tick is
\* outstanding.
C16_TickBeforeShutdown ==
    last.cb = "shutdown" =>
        /\ shutdown_counter = 0
        /\ sensor = "off"
        /\ TickTimers(schedule) = {}

\* C16, with the order of the two callbacks of the expiry minute left open:
\* when shutdown has run, the last tick has run or is due now.
C16_TickBeforeOrDue ==
    last.cb = "shutdown" =>
        \/ /\ shutdown_counter = 0
           /\ sensor = "off"
           /\ TickTimers(schedule) = {}
        \/ /\ shutdown_counter = 1
           /\ sensor = Minutes(1)
           /\ \E t \in TickTimers(schedule) : t.due = 0

\* C17: a run of shutdown calls only log and turn_off, and leaves the counter,
\* the sensor, both handle fields and every outstanding timer as they were
\* (the one-shot timer that fired is no longer outstanding).
C17_ShutdownFrame ==
    [][last'.cb = "shutdown" =>
           /\ UNCHANGED <<shutdown_counter, sensor, timer_handle,
                          update_countdown_handle>>
           /\ schedule' = {t \in schedule :
                               ~(t.cb = "shutdown" /\ t.handle = last'.handle)}
           /\ \A i \in DOMAIN calls' : calls'[i].fn \in {"log", "turn_off"}]_vars

\* C17's case: shutdown has run while the countdown still showed a minute and
\* the tick was outstanding, and both are as they were.
C17_Witness ==
    /\ last.cb = "shutdown"
    /\ sensor = Minutes(1)
    /\ timer_handle # None
    /\ TickTimers(schedule) = {[handle |-> update_countdown_handle,
                                cb |-> "update_countdown", due |-> 0]}
    /\ CallsOf("turn_off") # {}

\* C18: shutdown_counter is never negative, and while a repeating
\* update_countdown timer is outstanding shutdown_counter is positive.
C18_CounterBounds ==
    /\ shutdown_counter >= 0
    /\ TickTimers(schedule) # {} => shutdown_counter > 0

\* C18's case: the decrement that reached 0 has cancelled the repeating timer.
C18_Witness ==
    /\ last.cb = "update_countdown"
    /\ run.ticks > 1
    /\ shutdown_counter = 0
    /\ TickTimers(schedule) = {}

\* C19: whenever the sensor shows "<n> min", a repeating update_countdown
\* timer is outstanding and n is shutdown_counter.
C19_DisplayMeansCountdown ==
    sensor # "off" =>
        /\ TickTimers(schedule) # {}
        /\ sensor = Minutes(shutdown_counter)

\* What does hold of the display: it is "off" or shows a positive count of
\* minutes no greater than the longest duration.
C19_DisplayWellFormed ==
    sensor \in {"off"} \cup {Minutes(n) : n \in 1..MaxMinutes}

====
